---------------------------- MODULE Spec2Model ----------------------------
(***************************************************************************)
(* Model of the four disk-simulation programs of the repository:           *)
(*   "uniform"  src/disk_sim.cpp    1..469   SFML, two windows, uniform    *)
(*                                           redistribution of coins       *)
(*   "sdl"      src/disk_sim.cpp  470..797   SDL + Matplot, independent    *)
(*                                           trials, plot per collision    *)
(*   "zerocoin" src/disk_sim.cpp  799..1276  SFML, two windows, independent*)
(*                                           trials + zero-coin case       *)
(*   "chart"    src/unnamed/part_000         SFML, one window, independent *)
(*                                           trials                        *)
(*                                                                         *)
(* Numbers.  A C++ float is modelled as a fixed-point number: a record     *)
(* [nan, v] where v counts units of 1/ONE, or the NaN of IEEE arithmetic.  *)
(* Products and quotients are rounded to the nearest unit, the square root *)
(* is truncated.  The arena, the radius, the number of disks and the coin  *)
(* cap are scaled down; the scaled values are the bounds of the model.     *)
(* dt is a whole number of time units, SAMPLE_INTERVAL of them making the  *)
(* 0.1 s of the sampling throttle.  g_speedFactor counts 1/SPEED_ONE.      *)
(***************************************************************************)
EXTENDS Integers, Sequences, FiniteSets, TLC

VARIABLES
    variant,                \* which of the four programs runs
    disks,                  \* std::vector<Disk> disks
    collision_count,        \* static int collision_count
    cumulative_counts,      \* static std::vector<int> cumulative_counts
    xdata,                  \* per-k series of x values (collision_count)
    ydata,                  \* per-k series of y values (estimates)
    g_coinFraction,         \* latest estimate per k (two-window programs)
    g_speedFactor,          \* speed multiplier (two-window programs)
    time_since_plot,        \* accumulator of the sampling throttle
    mainRunning,            \* mainRunning / running
    statsRunning,           \* statsRunning (two-window programs)
    dt,                     \* dt of the current frame
    collisions_this_frame,  \* local of main's collision loop
    i, j,                   \* indices of the pair loop
    pc,                     \* position of main in its loop
    calls,                  \* handle_disk_collision calls of the current tick
    ticks                   \* number of frames simulated so far

vars == <<variant, disks, collision_count, cumulative_counts, xdata, ydata,
          g_coinFraction, g_speedFactor, time_since_plot, mainRunning,
          statsRunning, dt, collisions_this_frame, i, j, pc, calls, ticks>>

---------------------------------------------------------------------------
(* Bounds of the model and scaled program constants *)

DISK_COUNT == 3

MAX_COINS_PER_DISK == 2

DISK_RADIUS == 2

MaxTicks == 2

\* the values of dt a frame may measure, in time units
DtValues == {1, 2}

ONE == 10

SPEED_ONE == 10000

\* the floor 0.001f of g_speedFactor
SPEED_FLOOR == SPEED_ONE \div 1000

SAMPLE_INTERVAL == 2

MAX_ATTEMPTS == 4

WIDTH == 7 * DISK_RADIUS

HEIGHT == 6 * DISK_RADIUS

CHART_TOP == 5 * DISK_RADIUS

Variants == {"uniform", "sdl", "zerocoin", "chart"}

TwoWindow(v) == v \in {"uniform", "zerocoin"}

Throttled(v) == v \in {"uniform", "zerocoin", "chart"}

IndependentTrial(v) == v \in {"sdl", "zerocoin", "chart"}

OverlapFix(v) == v \in {"uniform", "zerocoin", "chart"}

\* bottom boundary of the arena: HEIGHT in the SDL program, CHART_TOP elsewhere
Bottom(v) == IF v = "sdl" THEN HEIGHT ELSE CHART_TOP

DiskIds == 0 .. (DISK_COUNT - 1)

CoinValues == 0 .. MAX_COINS_PER_DISK

---------------------------------------------------------------------------
(* float arithmetic *)

NaN == [nan |-> TRUE, v |-> 0]

F(n) == [nan |-> FALSE, v |-> n]

\* int -> float conversion
FInt(n) == F(n * ONE)

\* a / b rounded to the nearest integer, b > 0
RDiv(a, b) == (2 * a + b) \div (2 * b)

FAdd(a, b) == IF a.nan \/ b.nan THEN NaN ELSE F(a.v + b.v)

FSub(a, b) == IF a.nan \/ b.nan THEN NaN ELSE F(a.v - b.v)

FNeg(a) == IF a.nan THEN NaN ELSE F(0 - a.v)

FMul(a, b) == IF a.nan \/ b.nan THEN NaN ELSE F(RDiv(a.v * b.v, ONE))

\* the only divisor of the programs is a distance (>= 0); a zero distance
\* comes with a zero numerator, and 0.0f / 0.0f is NaN
FDiv(a, b) ==
    IF a.nan \/ b.nan \/ b.v = 0 THEN NaN ELSE F(RDiv(a.v * ONE, b.v))

\* every comparison with a NaN operand is false
FLess(a, b) == ~a.nan /\ ~b.nan /\ a.v < b.v

FGreater(a, b) == ~a.nan /\ ~b.nan /\ a.v > b.v

RECURSIVE ISqrtIter(_, _)
ISqrtIter(n, x) ==
    LET y == (x + n \div x) \div 2
    IN  IF y >= x THEN x ELSE ISqrtIter(n, y)

\* floor of the square root
ISqrt(n) == IF n <= 0 THEN 0 ELSE ISqrtIter(n, n)

RECURSIVE SumTo(_, _)
SumTo(f, n) == IF n < 0 THEN 0 ELSE f[n] + SumTo(f, n - 1)

---------------------------------------------------------------------------
(* Disk and the functions on it *)

Disk(x, y, vx, vy, radius, coin_count) ==
    [x |-> x, y |-> y, vx |-> vx, vy |-> vy,
     radius |-> radius, coin_count |-> coin_count]

\* float distance(a, b): sqrt(dx*dx + dy*dy)
Distance(a, b) ==
    LET dx == FSub(b.x, a.x)
        dy == FSub(b.y, a.y)
    IN  IF dx.nan \/ dy.nan THEN NaN
        ELSE F(ISqrt(dx.v * dx.v + dy.v * dy.v))

\* mutant: a tangent pair counts as a collision
OverlappingOrTangent(d1, d2) ==
    LET dist == Distance(d1, d2)
    IN  ~dist.nan /\ ~FGreater(dist, FInt(d1.radius + d2.radius))

\* the test  dist < d1.radius + d2.radius
Overlapping(d1, d2) == FLess(Distance(d1, d2), FInt(d1.radius + d2.radius))

Min(a, b) == IF a < b THEN a ELSE b

Max(a, b) == IF a > b THEN a ELSE b

\* if (c > MAX_COINS_PER_DISK) c = MAX_COINS_PER_DISK
Clamp(c) == IF c > MAX_COINS_PER_DISK THEN MAX_COINS_PER_DISK ELSE c

\* mutant: the second share is clamped instead of the split being filtered
PossibleRedistributionsClamped(total) ==
    LET all == [a \in 1 .. (total + 1) |->
                   <<a - 1, Min(total - (a - 1), MAX_COINS_PER_DISK)>>]
        Ok(p) == p[1] <= MAX_COINS_PER_DISK
    IN  SelectSeq(all, Ok)

\* mutant: the cap is compared with < instead of <=
PossibleRedistributionsBelowCap(total) ==
    LET all == [a \in 1 .. (total + 1) |-> <<a - 1, total - (a - 1)>>]
        Ok(p) == p[1] < MAX_COINS_PER_DISK /\ p[2] < MAX_COINS_PER_DISK
    IN  SelectSeq(all, Ok)

\* the splits (a, total - a) the uniform policy enumerates, in its order
PossibleRedistributions(total) ==
    LET all == [a \in 1 .. (total + 1) |-> <<a - 1, total - (a - 1)>>]
        Ok(p) == p[1] <= MAX_COINS_PER_DISK /\ p[2] <= MAX_COINS_PER_DISK
    IN  SelectSeq(all, Ok)

\* The random outcomes one collision consumes: idx for the uniform policy;
\* for the independent trials the number of successful flips of each loop
\* (to_d2 of c1 flips, to_d1 of c2 flips) and, in "zerocoin", the two flips
\* of the special case (s1, s2).
CoinDraws(v, c1, c2) ==
    IF v = "uniform"
    THEN LET n == Len(PossibleRedistributions(c1 + c2))
         IN  [idx : 1 .. Max(n, 1), s1 : {FALSE}, s2 : {FALSE},
              to_d2 : {0}, to_d1 : {0}]
    ELSE [idx : {1},
          s1 : IF v = "zerocoin" /\ c1 = 0 /\ c2 > 0 THEN BOOLEAN ELSE {FALSE},
          s2 : IF v = "zerocoin" THEN BOOLEAN ELSE {FALSE},
          to_d2 : 0 .. Max(c1, 0), to_d1 : 0 .. Max(c2, 0)]

\* uniform redistribution of the pair's coins
UniformExchange(c1, c2, draw) ==
    LET pr == PossibleRedistributions(c1 + c2)
    IN  IF Len(pr) > 0 THEN pr[draw.idx] ELSE <<c1, c2>>

\* the special case for 0-coin disks of "zerocoin": a pair <<c1, c2>>
ZeroCoinCase(c1, c2, draw) ==
    LET a == IF c1 = 0 /\ c2 > 0 /\ draw.s1 THEN <<c1 + 1, c2 - 1>>
             ELSE <<c1, c2>>
    IN  IF a[2] = 0 /\ a[1] > 0 /\ draw.s2 THEN <<a[1] - 1, a[2] + 1>>
        ELSE a

\* mutant: the coins moving to d2 are not taken from d1
IndependentExchangeNoDebit(v, c1, c2, draw) ==
    LET a2 == c2 + draw.to_d2
        b2 == a2 - draw.to_d1
        b1 == c1 + draw.to_d1
    IN  <<Clamp(b1), Clamp(b2)>>

\* each coin moves with probability 0.5, then the clamp
IndependentExchange(v, c1, c2, draw) ==
    LET s  == IF v = "zerocoin" THEN ZeroCoinCase(c1, c2, draw)
              ELSE <<c1, c2>>
        a1 == s[1] - draw.to_d2
        a2 == s[2] + draw.to_d2
        b2 == a2 - draw.to_d1
        b1 == a1 + draw.to_d1
    IN  <<Clamp(b1), Clamp(b2)>>

ExchangeCoins(v, c1, c2, draw) ==
    IF v = "uniform" THEN UniformExchange(c1, c2, draw)
    ELSE IndependentExchange(v, c1, c2, draw)

\* bool handle_disk_collision(d1, d2, rng): [d1, d2, ret]
HandleDiskCollision(v, d1, d2, draw) ==
    LET dist == Distance(d1, d2)
    IN  IF Overlapping(d1, d2)
        THEN LET nx  == FDiv(FSub(d2.x, d1.x), dist)
                 ny  == FDiv(FSub(d2.y, d1.y), dist)
                 v1n == FAdd(FMul(d1.vx, nx), FMul(d1.vy, ny))
                 v2n == FAdd(FMul(d2.vx, nx), FMul(d2.vy, ny))
                 vx1 == FAdd(d1.vx, FMul(FSub(v2n, v1n), nx))
                 vy1 == FAdd(d1.vy, FMul(FSub(v2n, v1n), ny))
                 vx2 == FAdd(d2.vx, FMul(FSub(v1n, v2n), nx))
                 vy2 == FAdd(d2.vy, FMul(FSub(v1n, v2n), ny))
                 c   == ExchangeCoins(v, d1.coin_count, d2.coin_count, draw)
                 overlap == FSub(FInt(d1.radius + d2.radius), dist)
                 half == FMul(overlap, F(ONE \div 2))
                 fix == OverlapFix(v) /\ FGreater(overlap, F(0))
                 x1  == IF fix THEN FSub(d1.x, FMul(nx, half)) ELSE d1.x
                 y1  == IF fix THEN FSub(d1.y, FMul(ny, half)) ELSE d1.y
                 x2  == IF fix THEN FAdd(d2.x, FMul(nx, half)) ELSE d2.x
                 y2  == IF fix THEN FAdd(d2.y, FMul(ny, half)) ELSE d2.y
             IN  [d1 |-> Disk(x1, y1, vx1, vy1, d1.radius, c[1]),
                  d2 |-> Disk(x2, y2, vx2, vy2, d2.radius, c[2]),
                  ret |-> TRUE]
        ELSE [d1 |-> d1, d2 |-> d2, ret |-> FALSE]

\* mutant: the bounce off the low wall clamps the position and keeps the
\* velocity
BounceKeepsVelocity(p, vel, radius, bound) ==
    IF FLess(FSub(p, FInt(radius)), F(0)) THEN <<FInt(radius), vel>>
    ELSE IF FGreater(FAdd(p, FInt(radius)), FInt(bound))
         THEN <<FSub(FInt(bound), FInt(radius)), FNeg(vel)>>
         ELSE <<p, vel>>

\* one axis of update_position: <<position, velocity>> after the bounce
Bounce(p, vel, radius, bound) ==
    IF FLess(FSub(p, FInt(radius)), F(0)) THEN <<FInt(radius), FNeg(vel)>>
    ELSE IF FGreater(FAdd(p, FInt(radius)), FInt(bound))
         THEN <<FSub(FInt(bound), FInt(radius)), FNeg(vel)>>
         ELSE <<p, vel>>

\* vel * dt, times g_speedFactor in the two-window programs
Advance(v, vel, t, speed) ==
    IF vel.nan THEN NaN
    ELSE IF TwoWindow(v) THEN F(RDiv(vel.v * t * speed, SPEED_ONE))
         ELSE F(vel.v * t)

\* void update_position(disk, dt)
UpdatePosition(v, d, t, speed) ==
    LET bx == Bounce(FAdd(d.x, Advance(v, d.vx, t, speed)), d.vx,
                     d.radius, WIDTH)
        by == Bounce(FAdd(d.y, Advance(v, d.vy, t, speed)), d.vy,
                     d.radius, Bottom(v))
    IN  Disk(bx[1], by[1], bx[2], by[2], d.radius, d.coin_count)

\* bool is_valid_position(existing_disks, x, y, radius)
IsValidPosition(existing, x, y, radius) ==
    /\ ~FLess(FSub(x, FInt(radius)), F(0))
    /\ ~FGreater(FAdd(x, FInt(radius)), FInt(WIDTH))
    /\ ~FLess(FSub(y, FInt(radius)), F(0))
    /\ ~FGreater(FAdd(y, FInt(radius)), FInt(CHART_TOP))
    /\ \A n \in 1 .. Len(existing) :
          LET dx == FSub(x, existing[n].x)
              dy == FSub(y, existing[n].y)
              \* (radius + disk.radius) * 1.1f, in units of 1/ONE
              min_dist == RDiv((radius + existing[n].radius) * ONE * 11, 10)
          IN  ~(dx.v * dx.v + dy.v * dy.v < min_dist * min_dist)

\* the k-th value (k = 0, 1, ...) of a stream of random draws
Draw(stream, k) == stream[(k % Len(stream)) + 1]

\* mutant: when the attempts are used up the last candidate is taken
FindValidPositionFallback(existing, stream, at, radius, attempts) ==
    LET Try[k \in 0 .. attempts] ==
            LET c == Draw(stream, at + attempts - k)
            IN  IF k = 0
                THEN [found |-> TRUE, x |-> F(Draw(stream, at + attempts - 1)[1]),
                      y |-> F(Draw(stream, at + attempts - 1)[2]),
                      next |-> at + attempts]
                ELSE IF IsValidPosition(existing, F(c[1]), F(c[2]), radius)
                     THEN [found |-> TRUE, x |-> F(c[1]), y |-> F(c[2]),
                           next |-> at + attempts - k + 1]
                     ELSE Try[k - 1]
    IN  Try[attempts]

RECURSIVE FindValidPosition(_, _, _, _, _)
\* find_valid_position(existing_disks, rng, radius, max_attempts): the
\* candidates are the draws of `stream` from index `at` on; the result is
\* [found, x, y, next], next being the index of the first draw not consumed
FindValidPosition(existing, stream, at, radius, attempts) ==
    IF attempts = 0
    THEN [found |-> FALSE, x |-> F(0), y |-> F(0), next |-> at]
    ELSE LET c == Draw(stream, at)
         IN  IF IsValidPosition(existing, F(c[1]), F(c[2]), radius)
             THEN [found |-> TRUE, x |-> F(c[1]), y |-> F(c[2]),
                   next |-> at + 1]
             ELSE FindValidPosition(existing, stream, at + 1, radius,
                                    attempts - 1)

\* initial coins: the first disk gets MAX_COINS_PER_DISK, the rest get 0
Distribution == [n \in DiskIds |-> IF n = 0 THEN MAX_COINS_PER_DISK ELSE 0]

\* velDist(rng), times SPEED_MULTIPLIER in "chart"
InitialVelocity(v, draw) == IF v = "chart" THEN F(5 * draw) ELSE F(draw)

RECURSIVE PlaceDisks(_, _, _, _, _)
\* the disk-creation loop of "uniform": the disks placed so far, or the
\* empty sequence followed by nothing more once a placement has failed
PlaceDisks(placed, stream, at, vels, coins) ==
    IF Len(placed) = DISK_COUNT THEN [ok |-> TRUE, disks |-> placed]
    ELSE LET n == Len(placed)
             r == FindValidPosition(placed, stream, at, DISK_RADIUS,
                                    MAX_ATTEMPTS)
         IN  IF ~r.found THEN [ok |-> FALSE, disks |-> placed]
             ELSE PlaceDisks(
                    Append(placed, Disk(r.x, r.y,
                                        InitialVelocity("uniform", Draw(vels, 2 * n)),
                                        InitialVelocity("uniform", Draw(vels, 2 * n + 1)),
                                        DISK_RADIUS, coins[n])),
                    stream, r.next, vels, coins)

\* the disk-creation loop of the other three programs:
\* DISK_RADIUS + rand() % range for each coordinate
RandDisks(v, rands, vels, coins) ==
    LET xrange == IF v = "sdl" THEN WIDTH - 2 * DISK_RADIUS
                  ELSE CHART_TOP - 2 * DISK_RADIUS
        yrange == IF v = "sdl" THEN HEIGHT - 2 * DISK_RADIUS
                  ELSE CHART_TOP - 2 * DISK_RADIUS
    IN  [n \in DiskIds |->
            Disk(FInt(DISK_RADIUS + (Draw(rands, 2 * n) % xrange)),
                 FInt(DISK_RADIUS + (Draw(rands, 2 * n + 1) % yrange)),
                 InitialVelocity(v, Draw(vels, 2 * n)),
                 InitialVelocity(v, Draw(vels, 2 * n + 1)),
                 DISK_RADIUS, coins[n])]

\* sequence 1..DISK_COUNT -> function on DiskIds
AsVector(placed) == [n \in DiskIds |-> placed[n + 1]]

---------------------------------------------------------------------------
(* update_plot *)

\* an estimate num / den; den = 0 stands for the non-finite result of an
\* unguarded division by a zero collision_count
Est(num, den) == <<num, den>>

ZeroEst == Est(0, 1)

\* mutant: the histogram records whether a value is held, not by how many
CountsPresence(ds) ==
    [k \in CoinValues |-> IF \E n \in DiskIds : ds[n].coin_count = k THEN 1 ELSE 0]

\* the histogram of the population: disks whose coin_count is k
Counts(ds) == [k \in CoinValues |-> Cardinality({n \in DiskIds : ds[n].coin_count = k})]

\* a disk whose coin_count indexes outside counts[0 .. MAX_COINS_PER_DISK]
OutOfRange(ds) == \E n \in DiskIds : ds[n].coin_count \notin CoinValues

\* mutant: every program divides by DISK_COUNT * collision_count
EstimatePerDisk(v, cum, k, cc) ==
    IF cc > 0 \/ v = "sdl" THEN Est(cum[k], DISK_COUNT * cc) ELSE ZeroEst

\* the value pushed to ydata[k]
Estimate(v, cum, k, cc) ==
    IF v = "sdl" THEN Est(cum[k], DISK_COUNT * cc)
    ELSE IF cc > 0
         THEN (IF v = "chart" THEN Est(cum[k], DISK_COUNT * cc)
               ELSE Est(cum[k], cc))
         ELSE ZeroEst

\* mutant: update_plot adds the histogram and appends no point
UpdatePlotKeepsSeries(v, ds, cc, cum, xd, yd, gcf) ==
    [cumulative_counts |-> [k \in CoinValues |-> cum[k] + Counts(ds)[k]],
     xdata |-> xd,
     ydata |-> yd,
     g_coinFraction |-> gcf]

\* void update_plot(disks): the new values of the chart globals
UpdatePlot(v, ds, cc, cum, xd, yd, gcf) ==
    LET counts == Counts(ds)
        cum2 == [k \in CoinValues |-> cum[k] + counts[k]]
    IN  [cumulative_counts |-> cum2,
         xdata |-> [k \in CoinValues |-> Append(xd[k], cc)],
         ydata |-> [k \in CoinValues |-> Append(yd[k], Estimate(v, cum2, k, cc))],
         g_coinFraction |-> IF TwoWindow(v)
                            THEN [k \in CoinValues |-> Estimate(v, cum2, k, cc)]
                            ELSE gcf]

\* counts[d.coin_count]++ with an index outside the vector is undefined:
\* the build either aborts (sanitizer, heap check) or the write lands
\* outside counts and the run goes on
PlotOutcomes(ds) == IF OutOfRange(ds) THEN {"abort", "stray"} ELSE {"ok"}

---------------------------------------------------------------------------
(* The random inputs of disk creation *)

\* streams of rand() (unseeded: one fixed stream per C library), consumed
\* as x0, y0, x1, y1, ...
RandStreams ==
    { <<0, 0, 0, 0, 4, 0>>,
      <<0, 0, 5, 0, 0, 5>> }

\* streams of velDist(rng), in units of 1/ONE per time unit, consumed as
\* vx0, vy0, vx1, vy1, ...
VelStreams ==
    { <<4, 0, -4, 0, 0, -4>>,
      <<-4, -4, -2, -6, 0, 4>>,
      <<-4, -4, -2, -6, -4, 0>> }

\* streams of candidate positions (x_dist(rng), y_dist(rng)) of "uniform",
\* in units of 1/ONE
PosStreams ==
    { << <<30, 30>>, <<50, 30>>, <<80, 30>>, <<30, 80>>, <<80, 80>> >>,
      << <<30, 30>>, <<50, 50>>, <<40, 40>> >> }

---------------------------------------------------------------------------
(* State after construction *)

InitChart ==
    /\ collision_count = 0
    /\ cumulative_counts = [k \in CoinValues |-> 0]
    /\ xdata = [k \in CoinValues |-> <<>>]
    /\ ydata = [k \in CoinValues |-> <<>>]
    /\ g_coinFraction = [k \in CoinValues |-> ZeroEst]

InitLoop ==
    /\ g_speedFactor = 5 * SPEED_ONE
    /\ time_since_plot = 0
    /\ mainRunning = TRUE
    /\ statsRunning = TwoWindow(variant)
    /\ dt = 0
    /\ collisions_this_frame = 0
    /\ i = 0
    /\ j = 0
    /\ calls = <<>>
    /\ ticks = 0

\* main up to the first evaluation of the loop condition, the disks holding
\* the coins `coins`
InitDisks(coins) ==
    /\ variant \in Variants
    /\ \E vels \in VelStreams :
          IF variant = "uniform"
          THEN \E ps \in PosStreams :
                  LET r == PlaceDisks(<<>>, ps, 0, vels, coins)
                  IN  /\ disks = [n \in 0 .. (Len(r.disks) - 1) |-> r.disks[n + 1]]
                      /\ pc = IF r.ok THEN "poll" ELSE "failed"
          ELSE \E rs \in RandStreams :
                  /\ disks = RandDisks(variant, rs, vels, coins)
                  /\ pc = "poll"

Init == InitDisks(Distribution) /\ InitChart /\ InitLoop

---------------------------------------------------------------------------
(* The main loop *)

chartVars == <<cumulative_counts, xdata, ydata, g_coinFraction>>

loopVars == <<collisions_this_frame, i, j, calls>>

\* the loop condition: mainRunning || statsRunning, or running (&& isOpen)
LoopCondition ==
    IF TwoWindow(variant) THEN mainRunning \/ statsRunning ELSE mainRunning

\* the event a frame delivers: at most one per frame, to the main window
\* (a key, Closed) or to the stats window (StatsClosed)
FrameEvents ==
    {"none"}
    \cup (IF ~mainRunning THEN {}
          ELSE IF TwoWindow(variant) THEN {"Up", "Down", "Closed"}
               ELSE {"Closed"})
    \cup (IF TwoWindow(variant) /\ statsRunning THEN {"StatsClosed"} ELSE {})

\* mutant: Down divides and does not raise the result to the floor
SpeedAfterNoFloor(speed, ev) ==
    IF ev = "Up" THEN RDiv(speed * 12, 10)
    ELSE IF ev = "Down" THEN RDiv(speed * 10, 12)
         ELSE speed

\* g_speedFactor after a key press
SpeedAfter(speed, ev) ==
    IF ev = "Up" THEN RDiv(speed * 12, 10)
    ELSE IF ev = "Down"
         THEN (LET s == RDiv(speed * 10, 12)
               IN  IF s < SPEED_FLOOR THEN SPEED_FLOOR ELSE s)
         ELSE speed

\* mutant: the frame is simulated whether or not the main window is open
SimulatesAlways(v, running) == TRUE

\* the two-window programs simulate a frame only while the main window is
\* open (if (mainRunning && mainWindow.isOpen())); the other two finish the
\* frame in which they are closed
Simulates(v, running) == ~TwoWindow(v) \/ running

\* top of the loop body: dt is read and the pending events are handled;
\* MaxTicks bounds the simulated frames
PollEvents ==
    /\ pc = "poll"
    /\ LoopCondition
    /\ ticks < MaxTicks \/ ~Simulates(variant, mainRunning)
    /\ \E t \in DtValues, ev \in FrameEvents :
          /\ dt' = t
          /\ mainRunning' = (mainRunning /\ ev # "Closed")
          /\ statsRunning' = (statsRunning /\ ev # "StatsClosed")
          /\ g_speedFactor' = SpeedAfter(g_speedFactor, ev)
          /\ IF Simulates(variant, mainRunning')
             THEN pc' = "move" /\ ticks' = ticks + 1
             ELSE pc' = "poll" /\ ticks' = ticks
    /\ UNCHANGED <<variant, disks, collision_count, chartVars,
                   time_since_plot, loopVars>>

\* the loop condition fails: main returns 0
Exit ==
    /\ pc = "poll"
    /\ ~LoopCondition
    /\ pc' = "done"
    /\ UNCHANGED <<variant, disks, collision_count, chartVars, g_speedFactor,
                   time_since_plot, mainRunning, statsRunning, dt, loopVars,
                   ticks>>

\* for (auto &d : disks) update_position(d, dt);
UpdatePositions ==
    /\ pc = "move"
    /\ disks' = [n \in DOMAIN disks |->
                    UpdatePosition(variant, disks[n], dt, g_speedFactor)]
    /\ collisions_this_frame' = 0
    /\ i' = 0
    /\ j' = 1
    /\ calls' = <<>>
    /\ pc' = IF DISK_COUNT > 1 THEN "collide" ELSE "plot"
    /\ UNCHANGED <<variant, collision_count, chartVars, g_speedFactor,
                   time_since_plot, mainRunning, statsRunning, dt, ticks>>

\* mutant: the outer loop stops after its first round
NextPairFirstRow(a, b) ==
    IF b + 1 < DISK_COUNT THEN <<a, b + 1>>
    ELSE <<DISK_COUNT, DISK_COUNT>>

\* the pair after (a, b) in the nested loops, <<DISK_COUNT, DISK_COUNT>> when
\* (a, b) is the last one
NextPair(a, b) ==
    IF b + 1 < DISK_COUNT THEN <<a, b + 1>>
    ELSE IF a + 2 < DISK_COUNT THEN <<a + 1, a + 2>>
         ELSE <<DISK_COUNT, DISK_COUNT>>

\* mutant: the tick's collisions are not added
AddCollisionsDropped(cc, n) == cc

\* mutant: the counter is assigned, not added to
AddCollisionsAssigned(cc, n) == n

\* collision_count += collisions_this_frame;  collision_count++ in "sdl"
AddCollisions(cc, n) == cc + n

\* one iteration of the inner loop: handle_disk_collision(disks[i], disks[j]);
\* "sdl" counts the collision and calls update_plot at once
CollidePair ==
    /\ pc = "collide"
    /\ \E draw \in IF Overlapping(disks[i], disks[j])
                   THEN CoinDraws(variant, disks[i].coin_count,
                                  disks[j].coin_count)
                   ELSE {[idx |-> 1, s1 |-> FALSE, s2 |-> FALSE,
                          to_d2 |-> 0, to_d1 |-> 0]} :
          LET r  == HandleDiskCollision(variant, disks[i], disks[j], draw)
              ds == [disks EXCEPT ![i] = r.d1, ![j] = r.d2]
              np == NextPair(i, j)
              more == np[1] < DISK_COUNT
              next == IF more THEN "collide" ELSE "plot"
          IN  /\ disks' = ds
              /\ calls' = Append(calls, <<i, j, r.ret>>)
              /\ i' = np[1]
              /\ j' = np[2]
              /\ IF variant = "sdl"
                 THEN /\ UNCHANGED collisions_this_frame
                      /\ IF r.ret
                         THEN /\ collision_count' = AddCollisions(collision_count, 1)
                              /\ \E out \in PlotOutcomes(ds) :
                                    IF out = "abort"
                                    THEN /\ pc' = "aborted"
                                         /\ UNCHANGED chartVars
                                    ELSE LET u == UpdatePlot(variant, ds,
                                                    AddCollisions(collision_count, 1),
                                                    cumulative_counts, xdata,
                                                    ydata, g_coinFraction)
                                         IN  /\ cumulative_counts' = u.cumulative_counts
                                             /\ xdata' = u.xdata
                                             /\ ydata' = u.ydata
                                             /\ g_coinFraction' = u.g_coinFraction
                                             /\ pc' = next
                         ELSE /\ pc' = next
                              /\ UNCHANGED <<collision_count, chartVars>>
                 ELSE /\ collisions_this_frame' =
                            collisions_this_frame + (IF r.ret THEN 1 ELSE 0)
                      /\ pc' = next
                      /\ UNCHANGED <<collision_count, chartVars>>
    /\ UNCHANGED <<variant, g_speedFactor, time_since_plot, mainRunning,
                   statsRunning, dt, ticks>>

\* mutant: the throttle does not look at the accumulated time
SampleDueAnyTime(acc, cc) == cc > 0

\* mutant: the throttle does not look at collision_count
SampleDueNoCollision(acc, cc) == acc >= SAMPLE_INTERVAL

\* the sampling throttle:  time_since_plot >= 0.1f && collision_count > 0
SampleDue(acc, cc) == acc >= SAMPLE_INTERVAL /\ cc > 0

\* after the pair loop: collision_count += collisions_this_frame, then the
\* throttled update_plot; "sdl" has neither and only ends its frame
EndFrame ==
    /\ pc = "plot"
    /\ IF variant = "sdl"
       THEN /\ pc' = "poll"
            /\ UNCHANGED <<collision_count, chartVars, time_since_plot>>
       ELSE LET cc  == AddCollisions(collision_count, collisions_this_frame)
                acc == time_since_plot + dt
            IN  /\ collision_count' = cc
                /\ IF SampleDue(acc, cc)
                   THEN \E out \in PlotOutcomes(disks) :
                           IF out = "abort"
                           THEN /\ pc' = "aborted"
                                /\ time_since_plot' = acc
                                /\ UNCHANGED chartVars
                           ELSE LET u == UpdatePlot(variant, disks, cc,
                                            cumulative_counts, xdata, ydata,
                                            g_coinFraction)
                                IN  /\ cumulative_counts' = u.cumulative_counts
                                    /\ xdata' = u.xdata
                                    /\ ydata' = u.ydata
                                    /\ g_coinFraction' = u.g_coinFraction
                                    /\ time_since_plot' = 0
                                    /\ pc' = "poll"
                   ELSE /\ time_since_plot' = acc
                        /\ pc' = "poll"
                        /\ UNCHANGED chartVars
    /\ UNCHANGED <<variant, disks, g_speedFactor, mainRunning, statsRunning,
                   dt, loopVars, ticks>>

Next == PollEvents \/ Exit \/ UpdatePositions \/ CollidePair \/ EndFrame

Spec == Init /\ [][Next]_vars

\* the program keeps executing: once the loop condition is false, main
\* returns
SpecLive == Spec /\ WF_vars(Exit)

---------------------------------------------------------------------------
(* One tick, up to the end of its pair loop, on a population holding any   *)
(* coins: the specification under which handle_disk_collision and the pair *)
(* loop are checked on all their inputs                                    *)

InitPair ==
    /\ \E c0 \in CoinValues, c1 \in CoinValues :
          InitDisks([n \in DiskIds |-> IF n = 0 THEN c0
                                       ELSE IF n = 1 THEN c1 ELSE 0])
    /\ InitChart
    /\ g_speedFactor = 5 * SPEED_ONE
    /\ time_since_plot = 0
    /\ mainRunning = TRUE
    /\ statsRunning = TwoWindow(variant)
    /\ dt \in DtValues
    /\ collisions_this_frame = 0
    /\ i = 0
    /\ j = 0
    /\ calls = <<>>
    /\ ticks = MaxTicks

\* the frame starts at its position update
StartFrame ==
    /\ pc = "poll"
    /\ ticks = MaxTicks
    /\ calls = <<>>
    /\ pc' = "move"
    /\ UNCHANGED <<variant, disks, collision_count, chartVars, g_speedFactor,
                   time_since_plot, mainRunning, statsRunning, dt, loopVars,
                   ticks>>

NextOneTick == StartFrame \/ UpdatePositions \/ CollidePair

SpecPair == InitPair /\ [][NextOneTick]_vars

---------------------------------------------------------------------------
(* update_position on its inputs: one position update of a population     *)
(* whose first disk is anywhere a disk can be, with any velocity           *)

\* x of the first disk: pushed beyond the left wall by an overlap
\* correction, touching the left wall, in the middle, touching the right
\* wall, or NaN
MoveXs ==
    {F(DISK_RADIUS * ONE - (ONE \div 2)), FInt(DISK_RADIUS),
     F((WIDTH * ONE) \div 2), FInt(WIDTH - DISK_RADIUS), NaN}

\* y of the first disk: touching the top wall, in the middle, touching the
\* bottom wall
MoveYs(v) ==
    {FInt(DISK_RADIUS), F((Bottom(v) * ONE) \div 2),
     FInt(Bottom(v) - DISK_RADIUS)}

\* velocity components, NaN being what a collision at distance 0 leaves
MoveVels == {F(-4), F(0), F(4), NaN}

\* g_speedFactor at its initial value and after one key press
MoveSpeeds ==
    {5 * SPEED_ONE, SpeedAfter(5 * SPEED_ONE, "Up"),
     SpeedAfter(5 * SPEED_ONE, "Down")}

InitMove ==
    /\ variant \in Variants
    /\ \E x \in MoveXs, y \in MoveYs(variant), vx \in MoveVels, vy \in MoveVels :
          \* only an overlap correction puts a disk beyond a wall
          /\ OverlapFix(variant) \/ x.nan \/ x.v >= DISK_RADIUS * ONE
          /\ disks = [n \in DiskIds |->
                      IF n = 0
                      THEN Disk(x, y, vx, vy, DISK_RADIUS, MAX_COINS_PER_DISK)
                      ELSE Disk(FInt(DISK_RADIUS), FInt(DISK_RADIUS), F(0), F(0),
                                DISK_RADIUS, 0)]
    /\ InitChart
    /\ g_speedFactor \in (IF TwoWindow(variant) THEN MoveSpeeds
                          ELSE {5 * SPEED_ONE})
    /\ time_since_plot = 0
    /\ mainRunning = TRUE
    /\ statsRunning = TwoWindow(variant)
    /\ dt \in DtValues
    /\ collisions_this_frame = 0
    /\ i = 0
    /\ j = 0
    /\ calls = <<>>
    /\ ticks = 1
    /\ pc = "move"

NextMove == UpdatePositions

SpecMove == InitMove /\ [][NextMove]_vars

---------------------------------------------------------------------------
(* The key handler alone: a two-window program that only receives Up and   *)
(* Down key presses                                                        *)

\* Up is pressed only while g_speedFactor is at most MaxSpeedFactor
MaxSpeedFactor == 8

InitKeys ==
    /\ Init
    /\ TwoWindow(variant)
    /\ pc = "poll"

\* one turn of  while (auto eOpt = mainWindow.pollEvent())  on a KeyPressed
\* event with scancode Up or Down
KeyPressed ==
    /\ pc = "poll"
    /\ TwoWindow(variant)
    /\ mainRunning
    /\ \E ev \in {"Up", "Down"} :
          /\ ev = "Up" => g_speedFactor <= MaxSpeedFactor * SPEED_ONE
          /\ g_speedFactor' = SpeedAfter(g_speedFactor, ev)
    /\ UNCHANGED <<variant, disks, collision_count, chartVars,
                   time_since_plot, mainRunning, statsRunning, dt, loopVars,
                   pc, ticks>>

NextKeys == KeyPressed

SpecKeys == InitKeys /\ [][NextKeys]_vars

---------------------------------------------------------------------------
(* Claims *)

\* the coins of the whole population
TotalCoins == SumTo([n \in 0 .. (DISK_COUNT - 1) |->
                        IF n \in DOMAIN disks THEN disks[n].coin_count ELSE 0],
                    DISK_COUNT - 1)

\* a step of CollidePair in which handle_disk_collision returned true
TrueCall == pc = "collide" /\ Len(calls') = Len(calls) + 1
            /\ calls'[Len(calls')][3]

InRange(c) == c \in CoinValues

\* C1: in every program, in every reachable state, every disk's coin_count
\* lies in 0 .. MAX_COINS_PER_DISK
C1_CoinCountInRange ==
    \A n \in DOMAIN disks : InRange(disks[n].coin_count)

\* C2: under the uniform redistribution every resolved collision leaves
\* the pair's total, and every step leaves the population's total, as it was
C2_UniformConservesCoins ==
    [][variant = "uniform" =>
          /\ TotalCoins' = TotalCoins
          /\ TrueCall =>
                /\ disks'[i].coin_count + disks'[j].coin_count
                      = disks[i].coin_count + disks[j].coin_count
                /\ InRange(disks'[i].coin_count)
                /\ InRange(disks'[j].coin_count)]_vars

\* C2 witness: a resolved uniform collision of a pair holding more than
\* MAX_COINS_PER_DISK coins in which coins moved
C2_Witness ==
    /\ variant = "uniform"
    /\ pc = "collide"
    /\ calls = << <<0, 1, TRUE>> >>
    /\ disks[0].coin_count + disks[1].coin_count > MAX_COINS_PER_DISK
    /\ disks[0].coin_count = MAX_COINS_PER_DISK
    /\ disks[1].coin_count > 0

\* C3: with the shipped population the independent-trial programs keep
\* the population's total at its initial value
C3_IndependentKeepsTotal ==
    (IndependentTrial(variant) /\ pc # "failed")
        => TotalCoins = MAX_COINS_PER_DISK

\* C4: one independent-trial collision of two disks with counts in range
\* never raises the pair's total, and lowers it only when the clamp left a
\* disk at MAX_COINS_PER_DISK
C4_IndependentNeverCreates ==
    [][(IndependentTrial(variant) /\ TrueCall
            /\ InRange(disks[i].coin_count) /\ InRange(disks[j].coin_count)) =>
          LET before == disks[i].coin_count + disks[j].coin_count
              after  == disks'[i].coin_count + disks'[j].coin_count
          IN  /\ after <= before
              /\ after < before =>
                    \/ disks'[i].coin_count = MAX_COINS_PER_DISK
                    \/ disks'[j].coin_count = MAX_COINS_PER_DISK]_vars

\* C4 witness: a resolved independent-trial collision that left disk 0 at
\* the cap and disk 1 empty
C4_Witness ==
    /\ IndependentTrial(variant)
    /\ pc = "collide"
    /\ calls = << <<0, 1, TRUE>> >>
    /\ disks[0].coin_count = MAX_COINS_PER_DISK
    /\ disks[1].coin_count = 0
    /\ TotalCoins < 2 * MAX_COINS_PER_DISK

\* both centers are numbers and coincide
Coincident(a, b) ==
    /\ ~a.x.nan /\ ~a.y.nan /\ ~b.x.nan /\ ~b.y.nan
    /\ a.x = b.x /\ a.y = b.y

\* a step of CollidePair: one call of handle_disk_collision(disks[i], disks[j])
CallStep == pc = "collide" /\ Len(calls') = Len(calls) + 1

\* C5: a call of handle_disk_collision on a pair whose centers coincide
\* changes no position, velocity or coin count of any disk and does not end
\* the run
C5_CoincidentPairSkipped ==
    [][(CallStep /\ Coincident(disks[i], disks[j]))
          => (disks' = disks /\ pc' # "aborted")]_vars

\* the squared Euclidean distance of the centers is below the squared sum of
\* the radii (exact integer arithmetic, in units of 1/ONE)
CentersCloserThanRadii(a, b) ==
    /\ ~a.x.nan /\ ~a.y.nan /\ ~b.x.nan /\ ~b.y.nan
    /\ (b.x.v - a.x.v) * (b.x.v - a.x.v) + (b.y.v - a.y.v) * (b.y.v - a.y.v)
          < ((a.radius + b.radius) * ONE) * ((a.radius + b.radius) * ONE)

\* the centers are exactly the sum of the radii apart
Tangent(a, b) ==
    /\ ~a.x.nan /\ ~a.y.nan /\ ~b.x.nan /\ ~b.y.nan
    /\ (b.x.v - a.x.v) * (b.x.v - a.x.v) + (b.y.v - a.y.v) * (b.y.v - a.y.v)
          = ((a.radius + b.radius) * ONE) * ((a.radius + b.radius) * ONE)

\* C6: handle_disk_collision returns true exactly when the distance of the
\* centers is strictly below d1.radius + d2.radius; a tangent or separated
\* pair gets false and no field of any disk changes
C6_TrueIffStrictlyCloser ==
    [][CallStep =>
          /\ calls'[Len(calls')][3]
                <=> CentersCloserThanRadii(disks[i], disks[j])
          /\ ~CentersCloserThanRadii(disks[i], disks[j]) => disks' = disks]_vars

\* C6 witness: the first pair of the tick was tangent and got false
C6_Witness ==
    /\ Len(calls) = 1
    /\ calls[1] = <<0, 1, FALSE>>
    /\ Tangent(disks[0], disks[1])

RECURSIVE TrueCount(_)
\* the calls of the sequence that returned true
TrueCount(cs) ==
    IF cs = <<>> THEN 0
    ELSE (IF cs[1][3] THEN 1 ELSE 0) + TrueCount(Tail(cs))

\* C7: collision_count never decreases; "sdl" adds one at each call that
\* returned true, the other programs add at the end of the pair loop the
\* number of the tick's calls that returned true; no other step changes it
C7_CollisionCountGrowsByTrueCalls ==
    [][/\ collision_count' >= collision_count
       /\ CallStep =>
             collision_count' =
                 collision_count
                     + (IF variant = "sdl" /\ calls'[Len(calls')][3]
                        THEN 1 ELSE 0)
       /\ pc = "plot" =>
             collision_count' =
                 collision_count
                     + (IF variant = "sdl" THEN 0 ELSE TrueCount(calls))
       /\ (~CallStep /\ pc # "plot") =>
             collision_count' = collision_count]_vars

\* C7 witness: the second tick is over, it had a collision, and so had the
\* first one
C7_Witness ==
    /\ pc = "poll"
    /\ ticks = MaxTicks
    /\ TrueCount(calls) > 0
    /\ collision_count > TrueCount(calls)

\* the pairs (a, b), a < b, of disk indices
Pairs == {pr \in DiskIds \X DiskIds : pr[1] < pr[2]}

LexLess(p, q) == p[1] < q[1] \/ (p[1] = q[1] /\ p[2] < q[2])

\* the pairs in ascending lexicographic order
PairOrder ==
    [n \in 1 .. Cardinality(Pairs) |->
        CHOOSE pr \in Pairs :
            Cardinality({q \in Pairs : LexLess(q, pr)}) = n - 1]

\* the random outcomes a call on the pair (a, b) may consume
CallDraws(a, b) ==
    CoinDraws(variant, disks[a].coin_count, disks[b].coin_count)

\* C8: the pair loop starts every tick afresh, its n-th call is on the n-th
\* pair in lexicographic order, it ends after the last pair and not before,
\* and every call works on the disks as the earlier calls of the tick left
\* them
C8_PairsOnceInOrder ==
    [][/\ pc = "move" => (pc' = "collide" /\ calls' = <<>>)
       /\ CallStep =>
             LET pr == PairOrder[Len(calls) + 1]
             IN  /\ <<i, j>> = pr
                 /\ calls'[Len(calls')][1] = pr[1]
                 /\ calls'[Len(calls')][2] = pr[2]
                 /\ SubSeq(calls', 1, Len(calls)) = calls
                 /\ (pc' = "collide") <=> (Len(calls') < Cardinality(Pairs))
                 /\ \E draw \in CallDraws(pr[1], pr[2]) :
                       LET r == HandleDiskCollision(variant, disks[pr[1]],
                                                    disks[pr[2]], draw)
                       IN  /\ disks' = [disks EXCEPT ![pr[1]] = r.d1,
                                                     ![pr[2]] = r.d2]
                           /\ calls'[Len(calls')][3] = r.ret
       /\ pc = "collide" => CallStep]_vars

\* C8 witness: all pairs were handled; disk 0 collided with disk 1 and then,
\* as that collision left it, with disk 2
C8_Witness ==
    /\ pc = "plot"
    /\ Len(calls) = Cardinality(Pairs)
    /\ calls[1] = <<0, 1, TRUE>>
    /\ calls[2] = <<0, 2, TRUE>>

\* the number of sample points the chart holds for coin value k
Samples(k) == Len(xdata[k])

\* no series of the chart changes in the step
NoNewSample == xdata' = xdata /\ ydata' = ydata

\* every series gains exactly one point in the step, its x being the new
\* collision_count
OneNewSample ==
    \A k \in CoinValues :
        /\ Len(xdata'[k]) = Len(xdata[k]) + 1
        /\ Len(ydata'[k]) = Len(ydata[k]) + 1
        /\ SubSeq(xdata'[k], 1, Len(xdata[k])) = xdata[k]
        /\ SubSeq(ydata'[k], 1, Len(ydata[k])) = ydata[k]
        /\ xdata'[k][Len(xdata'[k])] = collision_count'

\* the end of a tick's pair loop, where the throttle is evaluated
ThrottleStep == pc = "plot"

\* the time accumulated since the previous sample has reached the interval
IntervalReached == time_since_plot + dt >= SAMPLE_INTERVAL

ZeroDenominator(e) == e[2] = 0

\* C10: while collision_count = 0 no sample has been taken (the cumulative
\* counts are 0, the series empty, the reported estimates 0), and no
\* estimate is ever computed with a zero denominator
C10_NoSampleBeforeFirstCollision ==
    /\ collision_count = 0 =>
          \A k \in CoinValues :
              /\ cumulative_counts[k] = 0
              /\ xdata[k] = <<>>
              /\ ydata[k] = <<>>
              /\ g_coinFraction[k][1] = 0
    /\ \A k \in CoinValues :
          /\ ~ZeroDenominator(g_coinFraction[k])
          /\ \A n \in 1 .. Len(ydata[k]) : ~ZeroDenominator(ydata[k][n])

\* C10 witness: a tick ended with the interval reached and no collision so
\* far
C10_Witness ==
    /\ pc = "poll"
    /\ ticks > 0
    /\ mainRunning
    /\ collision_count = 0
    /\ time_since_plot >= SAMPLE_INTERVAL

\* one of the three SFML programs runs
SfmlVariant == variant # "sdl"

\* a step of CollidePair whose call returned true
ResolvedCall == CallStep /\ calls'[Len(calls')][3]

\* The fixed-point arithmetic of the model is exact on the pair: the
\* distance d is a whole number of units, the normal (dx / d, dy / d) and
\* half the overlap are too, and so are their products.  On such pairs the
\* model computes what real arithmetic computes.
ExactNormal(a, b) ==
    LET dx == b.x.v - a.x.v
        dy == b.y.v - a.y.v
        d  == Distance(a, b).v
        overlap == (a.radius + b.radius) * ONE - d
    IN  /\ ~a.x.nan /\ ~a.y.nan /\ ~b.x.nan /\ ~b.y.nan
        /\ d > 0
        /\ d * d = dx * dx + dy * dy
        /\ (dx * ONE) % d = 0
        /\ (dy * ONE) % d = 0
        /\ overlap % 2 = 0
        /\ (((dx * ONE) \div d) * (overlap \div 2)) % ONE = 0
        /\ (((dy * ONE) \div d) * (overlap \div 2)) % ONE = 0

\* the squared length of the move from position a to position b
SquaredMove(a, b) ==
    (b.x.v - a.x.v) * (b.x.v - a.x.v) + (b.y.v - a.y.v) * (b.y.v - a.y.v)

\* after the call the pair (a, b) of `before` is (a2, b2): each disk has moved
\* by half the overlap, away from the other, and the centers are exactly the
\* sum of the radii apart
PushedApart(a, b, a2, b2) ==
    LET overlap == (a.radius + b.radius) * ONE - Distance(a, b).v
    IN  /\ 4 * SquaredMove(a, a2) = overlap * overlap
        /\ 4 * SquaredMove(b, b2) = overlap * overlap
        /\ Tangent(a2, b2)

\* C11: in every program a resolved pair with 0 < d < r_i + r_j leaves the
\* call with both disks moved apart by half the overlap each and the centers
\* exactly r_i + r_j apart
C11_PushedApartInEveryVariant ==
    [][(ResolvedCall /\ ExactNormal(disks[i], disks[j])) =>
          PushedApart(disks[i], disks[j], disks'[i], disks'[j])]_vars

\* what holds of the code for C11: the three SFML programs push the pair
\* apart, the SDL/Matplot program leaves its positions as they were
PushedApartInSfmlVariants ==
    [][(ResolvedCall /\ ExactNormal(disks[i], disks[j])) =>
          IF SfmlVariant
          THEN PushedApart(disks[i], disks[j], disks'[i], disks'[j])
          ELSE /\ disks'[i].x = disks[i].x /\ disks'[i].y = disks[i].y
               /\ disks'[j].x = disks[j].x /\ disks'[j].y = disks[j].y]_vars

\* the tick's pair loop is over, the first pair was the only one resolved,
\* and its disks are exactly the sum of the radii apart
PushedApartReached ==
    /\ SfmlVariant
    /\ pc = "plot"
    /\ calls[1] = <<0, 1, TRUE>>
    /\ TrueCount(calls) = 1
    /\ Tangent(disks[0], disks[1])

\* the rule of one axis: from position p0 and velocity v0 the step of length
\* adv leads to position p1 and velocity v1, between the walls 0 and bound
AxisRule(p0, v0, adv, p1, v1, radius, bound) ==
    IF p0.nan \/ adv.nan
    THEN p1.nan /\ v1 = v0
    ELSE LET p == p0.v + adv.v
         IN  IF p - radius * ONE < 0
             THEN /\ p1 = F(radius * ONE)
                  /\ v1.nan = v0.nan
                  /\ v1.v = 0 - v0.v
             ELSE IF p + radius * ONE > bound * ONE
                  THEN /\ p1 = F((bound - radius) * ONE)
                       /\ v1.nan = v0.nan
                       /\ v1.v = 0 - v0.v
                  ELSE p1 = F(p) /\ v1 = v0

\* C12: update_position advances each axis and reflects it on its own: below
\* the low wall the position becomes radius and the component is negated,
\* beyond the high wall it becomes bound - radius and the component is
\* negated, else the component is kept; a disk touching the low wall with an
\* outward velocity ends at radius with the component's sign flipped
C12_ReflectsPerAxis ==
    [][pc = "move" =>
          \A n \in DOMAIN disks :
              LET d == disks[n]
                  e == disks'[n]
              IN  /\ AxisRule(d.x, d.vx,
                              Advance(variant, d.vx, dt, g_speedFactor),
                              e.x, e.vx, d.radius, WIDTH)
                  /\ AxisRule(d.y, d.vy,
                              Advance(variant, d.vy, dt, g_speedFactor),
                              e.y, e.vy, d.radius, Bottom(variant))
                  /\ e.radius = d.radius
                  /\ e.coin_count = d.coin_count
                  /\ (d.x = FInt(d.radius) /\ ~d.vx.nan /\ d.vx.v < 0) =>
                        (e.x = FInt(d.radius) /\ e.vx.v = 0 - d.vx.v)
                  /\ (d.y = FInt(d.radius) /\ ~d.vy.nan /\ d.vy.v < 0) =>
                        (e.y = FInt(d.radius) /\ e.vy.v = 0 - d.vy.v)]_vars

\* C12 witness: the position update is over and the first disk has bounced
\* on both axes, off the left and the top wall
C12_Witness ==
    /\ pc = "collide"
    /\ disks[0].x = FInt(DISK_RADIUS)
    /\ disks[0].y = FInt(DISK_RADIUS)
    /\ ~disks[0].vx.nan /\ disks[0].vx.v > 0
    /\ ~disks[0].vy.nan /\ disks[0].vy.v > 0

\* main has created the population and no tick has run
PopulationCreated == pc = "poll" /\ ticks = 0

\* the disk lies fully inside the arena of the program
InsideArena(d) ==
    /\ ~d.x.nan /\ ~d.y.nan
    /\ d.radius * ONE <= d.x.v /\ d.x.v <= (WIDTH - d.radius) * ONE
    /\ d.radius * ONE <= d.y.v /\ d.y.v <= (Bottom(variant) - d.radius) * ONE

\* the centers are at least 1.1 times the sum of the radii apart
\* (100 * distance^2 >= 121 * sum^2, in units of 1/ONE)
ApartWithMargin(a, b) ==
    100 * SquaredMove(a, b)
        >= 121 * ((a.radius + b.radius) * ONE) * ((a.radius + b.radius) * ONE)

\* C13: in every program the population created at start has DISK_COUNT
\* disks, every disk inside the arena and no two disks closer than the sum
\* of their radii (1.1 times the sum in the program that uses
\* find_valid_position)
C13_InitialPopulationApart ==
    PopulationCreated =>
        /\ DOMAIN disks = DiskIds
        /\ \A n \in DiskIds : InsideArena(disks[n])
        /\ \A a \in DiskIds, b \in DiskIds :
              a < b =>
                 /\ ~CentersCloserThanRadii(disks[a], disks[b])
                 /\ variant = "uniform" => ApartWithMargin(disks[a], disks[b])

\* what holds of the code for C13: the created disks are inside the arena,
\* and the program that uses find_valid_position keeps them apart
InitialPopulationApartWhereChecked ==
    PopulationCreated =>
        /\ DOMAIN disks = DiskIds
        /\ \A n \in DiskIds : InsideArena(disks[n])
        /\ variant = "uniform" =>
              \A a \in DiskIds, b \in DiskIds :
                  a < b => ApartWithMargin(disks[a], disks[b])

\* the disks created so far, as find_valid_position receives them
Placed == [n \in 1 .. Cardinality(DOMAIN disks) |-> disks[n - 1]]

\* the candidates k = at, at + 1, ... that a search starting at draw `at`
\* tries before it returns r
CandidatesTried(r, at) == at .. (r.next - 1)

\* a search on the disks created so far, over the draws of ps from `at` on,
\* keeps to its budget: it tries at most MAX_ATTEMPTS candidates, every
\* candidate before the last is invalid, success returns a valid candidate,
\* and failure comes after exactly MAX_ATTEMPTS invalid candidates
SearchKeepsBudget(ps, at) ==
    LET r == FindValidPosition(Placed, ps, at, DISK_RADIUS, MAX_ATTEMPTS)
        Valid(k) == IsValidPosition(Placed, F(Draw(ps, k)[1]),
                                    F(Draw(ps, k)[2]), DISK_RADIUS)
    IN  /\ Cardinality(CandidatesTried(r, at)) <= MAX_ATTEMPTS
        /\ \A k \in CandidatesTried(r, at) : k < r.next - 1 => ~Valid(k)
        /\ r.found =>
              /\ r.next > at
              /\ Valid(r.next - 1)
              /\ r.x = F(Draw(ps, r.next - 1)[1])
              /\ r.y = F(Draw(ps, r.next - 1)[2])
        /\ ~r.found =>
              /\ Cardinality(CandidatesTried(r, at)) = MAX_ATTEMPTS
              /\ \A k \in CandidatesTried(r, at) : ~Valid(k)

\* C14: in the program with rejection sampling a search for a position
\* keeps to its budget of attempts; when a search has failed main has
\* stopped with fewer than DISK_COUNT disks, before any tick, and takes no
\* further step; whenever main is past the creation loop it has DISK_COUNT
\* disks, created at least 1.1 times the sum of their radii apart
C14_PlacementFailureIsFatal ==
    variant = "uniform" =>
        /\ ticks = 0 =>
              \A ps \in PosStreams : \A at \in 0 .. Len(ps) :
                  SearchKeepsBudget(ps, at)
        /\ pc = "failed" =>
              /\ Cardinality(DOMAIN disks) < DISK_COUNT
              /\ ticks = 0
              /\ collision_count = 0
              /\ ~ENABLED Next
              /\ \E ps \in PosStreams : \E at \in 0 .. Len(ps) :
                    ~FindValidPosition(Placed, ps, at, DISK_RADIUS,
                                       MAX_ATTEMPTS).found
        /\ pc # "failed" => DOMAIN disks = DiskIds
        /\ PopulationCreated =>
              \A a \in DiskIds, b \in DiskIds :
                  a < b => ApartWithMargin(disks[a], disks[b])

\* C14 witness: a search has used up its attempts and main has stopped with
\* one disk created
C14_Witness ==
    /\ variant = "uniform"
    /\ pc = "failed"
    /\ DOMAIN disks = {0}

\* the splits (a, b) of `total` coins with both shares within the cap
Splits(total) ==
    {sp \in CoinValues \X CoinValues : sp[1] + sp[2] = total}

\* the next call is on an overlapping pair of the uniform program whose
\* counts are in range
UniformCollisionDue ==
    /\ variant = "uniform"
    /\ pc = "collide"
    /\ CentersCloserThanRadii(disks[i], disks[j])
    /\ InRange(disks[i].coin_count)
    /\ InRange(disks[j].coin_count)

\* the counts a call on the pair (a, b) can leave it with, one for each
\* random outcome the call may consume
CallOutcomes(a, b) ==
    {<<r.d1.coin_count, r.d2.coin_count>> :
        r \in {HandleDiskCollision(variant, disks[a], disks[b], draw) :
                  draw \in CallDraws(a, b)}}

\* C16: under the uniform policy the outcomes of a collision of a pair with
\* counts in range are exactly the splits of the pair's total with both
\* shares in 0 .. MAX_COINS_PER_DISK: each split can come out, the call
\* leaves nothing else, and there is always at least one
C16_UniformOutcomesAreTheSplits ==
    [][UniformCollisionDue =>
          LET total == disks[i].coin_count + disks[j].coin_count
          IN  /\ Splits(total) # {}
              /\ CallOutcomes(i, j) = Splits(total)
              /\ CallStep =>
                    <<disks'[i].coin_count, disks'[j].coin_count>>
                        \in Splits(total)]_vars

\* C16 witness: a uniform collision of a pair holding more coins than one
\* disk can has left the second disk at the cap and the rest with the first
C16_Witness ==
    /\ variant = "uniform"
    /\ pc = "collide"
    /\ calls = << <<0, 1, TRUE>> >>
    /\ disks[1].coin_count = MAX_COINS_PER_DISK
    /\ disks[0].coin_count > 0
    /\ disks[0].coin_count < MAX_COINS_PER_DISK

\* update_plot has run in the step: the series have a new point
PlotRan == ~NoNewSample

\* the x value of the newest point of every series
NewestX(k) == xdata'[k][Len(xdata'[k])]

Holding(k) == Cardinality({n \in DiskIds : disks'[n].coin_count = k})

\* C18: a step in which update_plot ran adds to cumulative_counts[k], for
\* every k in 0..MAX_COINS_PER_DISK, exactly the number of disks holding k
\* coins, and appends exactly one point to every series, its x being
\* collision_count; update_plot changes no disk and leaves collision_count
\* at the value the main loop gave it; no other step changes
\* cumulative_counts
C18_PlotAddsHistogramAndOnePoint ==
    [][/\ PlotRan =>
             /\ \A k \in CoinValues :
                    cumulative_counts'[k] = cumulative_counts[k] + Holding(k)
             /\ OneNewSample
             /\ SfmlVariant =>
                    /\ disks' = disks
                    /\ collision_count' =
                           collision_count + collisions_this_frame
             /\ ~SfmlVariant =>
                    /\ \A n \in DiskIds : n \notin {i, j} => disks'[n] = disks[n]
                    /\ collision_count' = collision_count + 1
       /\ NoNewSample => cumulative_counts' = cumulative_counts]_vars

\* C18 witness: update_plot has run once on a population in which two disks
\* hold no coin: the total for 0 grew by two and every series has one point
C18_Witness ==
    /\ pc = "poll"
    /\ \A k \in CoinValues : Samples(k) = 1
    /\ cumulative_counts[0] = 2
    /\ Cardinality({n \in DiskIds : disks[n].coin_count = 0}) = 2

\* the divisor of a program's estimate at collision counter c: the
\* "average count" programs divide by c, the "fraction of disks" programs
\* by DISK_COUNT * c
Divisor(c) == IF TwoWindow(variant) THEN c ELSE DISK_COUNT * c

\* the estimate e is the quotient num / den, den not zero
IsQuotient(e, num, den) ==
    /\ den # 0
    /\ e[2] # 0
    /\ e[1] * den = num * e[2]

Sign(n) == IF n > 0 THEN 1 ELSE IF n < 0 THEN -1 ELSE 0

\* C20: from 5.0, after any sequence of Up and Down key presses,
\* g_speedFactor is at least 0.001, hence strictly positive, and the
\* displacement update_position computes with it never points against the
\* velocity
C20_SpeedFactorAtLeastFloor ==
    /\ g_speedFactor >= SPEED_FLOOR
    /\ g_speedFactor > 0
    /\ \A vel \in MoveVels \ {NaN}, t \in DtValues :
           LET adv == Advance(variant, vel, t, g_speedFactor)
           IN  /\ ~adv.nan
               /\ Sign(adv.v) \in {0, Sign(vel.v)}

\* C20 witness: Down presses have brought g_speedFactor from 5.0 to the
\* floor
C20_Witness ==
    /\ TwoWindow(variant)
    /\ g_speedFactor = SPEED_FLOOR
    /\ SpeedAfter(g_speedFactor, "Down") = SPEED_FLOOR

\* the collision normal of the pair (a, b) in units of 1/ONE, for a pair
\* whose normal is a whole number of units on both axes
NormalOf(a, b) ==
    LET d == Distance(a, b).v
    IN  <<((b.x.v - a.x.v) * ONE) \div d, ((b.y.v - a.y.v) * ONE) \div d>>

\* The fixed-point arithmetic of the model is exact on the velocity
\* exchange of the pair: the distance and the normal are whole numbers of
\* units, and so is every product of the exchange.  On such pairs the model
\* computes what real arithmetic computes.  (NaN is propagated as float
\* arithmetic propagates it.)
ExactExchange(a, b) ==
    LET dx == b.x.v - a.x.v
        dy == b.y.v - a.y.v
        d  == Distance(a, b).v
    IN  /\ ~a.x.nan /\ ~a.y.nan /\ ~b.x.nan /\ ~b.y.nan
        /\ d > 0
        /\ d * d = dx * dx + dy * dy
        /\ (dx * ONE) % d = 0
        /\ (dy * ONE) % d = 0
        /\ \/ a.vx.nan \/ a.vy.nan \/ b.vx.nan \/ b.vy.nan
           \/ LET n   == NormalOf(a, b)
                  v1n == (a.vx.v * n[1] + a.vy.v * n[2]) \div ONE
                  v2n == (b.vx.v * n[1] + b.vy.v * n[2]) \div ONE
              IN  /\ (a.vx.v * n[1]) % ONE = 0
                  /\ (a.vy.v * n[2]) % ONE = 0
                  /\ (b.vx.v * n[1]) % ONE = 0
                  /\ (b.vy.v * n[2]) % ONE = 0
                  /\ ((v2n - v1n) * n[1]) % ONE = 0
                  /\ ((v2n - v1n) * n[2]) % ONE = 0

\* the velocity of the disk is a pair of numbers
FiniteVelocity(d) == ~d.vx.nan /\ ~d.vy.nan

\* ONE times the component of d's velocity along the normal n
Along(d, n) == d.vx.v * n[1] + d.vy.v * n[2]

\* ONE times the component of d's velocity perpendicular to the normal n
Across(d, n) == d.vy.v * n[1] - d.vx.v * n[2]

\* after the call the pair (a, b) is (a2, b2): the components along the
\* normal n have changed disks, the components across it are as before
NormalSwapped(a, b, a2, b2, n) ==
    /\ FiniteVelocity(a2) /\ FiniteVelocity(b2)
    /\ Along(a2, n) = Along(b, n)
    /\ Along(b2, n) = Along(a, n)
    /\ Across(a2, n) = Across(a, n)
    /\ Across(b2, n) = Across(b, n)

\* C21: a call on a colliding pair with d > 0 exchanges the two disks'
\* velocity components along the normal (center_2 - center_1) / d and
\* leaves the components perpendicular to it unchanged
C21_NormalComponentsExchanged ==
    [][(ResolvedCall /\ ExactExchange(disks[i], disks[j])) =>
          NormalSwapped(disks[i], disks[j], disks'[i], disks'[j],
                        NormalOf(disks[i], disks[j]))]_vars

\* what holds of the code for C21: the exchange is as claimed whenever the
\* velocities the call receives are numbers; a disk whose velocity an
\* earlier call at distance 0 has made NaN passes NaN on to its partner
NormalSwappedWhenFinite ==
    [][(ResolvedCall /\ ExactExchange(disks[i], disks[j])) =>
          IF FiniteVelocity(disks[i]) /\ FiniteVelocity(disks[j])
          THEN NormalSwapped(disks[i], disks[j], disks'[i], disks'[j],
                             NormalOf(disks[i], disks[j]))
          ELSE ~FiniteVelocity(disks'[i]) /\ ~FiniteVelocity(disks'[j])]_vars

\* the sum of cumulative_counts over 0 .. k
RECURSIVE CumulativeUpTo(_)
CumulativeUpTo(k) ==
    IF k < 0 THEN 0 ELSE cumulative_counts[k] + CumulativeUpTo(k - 1)

\* C22: in every program the sum over k of cumulative_counts[k] is
\* DISK_COUNT times the number of times update_plot has run: every sample
\* counts every disk in exactly one bin of 0 .. MAX_COINS_PER_DISK
C22_EveryDiskCountedAtEverySample ==
    /\ \A k \in CoinValues : Samples(k) = Samples(0)
    /\ CumulativeUpTo(MAX_COINS_PER_DISK) = DISK_COUNT * Samples(0)

\* what holds of the code for C22: the sum is as claimed while every
\* coin_count sampled so far was within 0 .. MAX_COINS_PER_DISK, and never
\* above it
EveryDiskCountedWhileInRange ==
    /\ \A k \in CoinValues : Samples(k) = Samples(0)
    /\ CumulativeUpTo(MAX_COINS_PER_DISK) <= DISK_COUNT * Samples(0)
    /\ (variant # "zerocoin") =>
           CumulativeUpTo(MAX_COINS_PER_DISK) = DISK_COUNT * Samples(0)

\* update_position has reflected the axis: the advanced position p0 + adv
\* was beyond a wall and has been clamped
Reflected(p0, adv, radius, bound) ==
    /\ ~p0.nan /\ ~adv.nan
    /\ \/ p0.v + adv.v - radius * ONE < 0
       \/ p0.v + adv.v + radius * ONE > bound * ONE

\* the velocity component v1 of a disk at p1 does not point out of the
\* arena through the wall the disk touches
NotOutward(p1, v1, radius, bound) ==
    /\ ~v1.nan
    /\ p1 = F(radius * ONE) => v1.v >= 0
    /\ p1 = F((bound - radius) * ONE) => v1.v <= 0

\* C23: whenever update_position reflects a disk off a wall, the velocity
\* component it leaves points away from that wall into the arena or is
\* zero, also for a disk that an overlap correction had pushed outside the
\* arena
C23_ReflectionPointsInward ==
    [][pc = "move" =>
          \A n \in DOMAIN disks :
              LET d == disks[n]
                  e == disks'[n]
              IN  /\ Reflected(d.x, Advance(variant, d.vx, dt, g_speedFactor),
                               d.radius, WIDTH)
                        => NotOutward(e.x, e.vx, d.radius, WIDTH)
                  /\ Reflected(d.y, Advance(variant, d.vy, dt, g_speedFactor),
                               d.radius, Bottom(variant))
                        => NotOutward(e.y, e.vy, d.radius, Bottom(variant))]_vars

\* what holds of the code for C23: the reflection negates the component,
\* so it points into the arena exactly when the disk was moving towards the
\* wall it is reflected off
ReflectionInwardWhenMovingOut ==
    [][pc = "move" =>
          \A n \in DOMAIN disks :
              LET d == disks[n]
                  e == disks'[n]
                  adv == Advance(variant, d.vx, dt, g_speedFactor)
              IN  Reflected(d.x, adv, d.radius, WIDTH) =>
                      /\ e.vx.v = 0 - d.vx.v
                      /\ NotOutward(e.x, e.vx, d.radius, WIDTH)
                            <=> (IF d.x.v + adv.v - d.radius * ONE < 0
                                 THEN d.vx.v <= 0 ELSE d.vx.v >= 0)]_vars

\* the estimate e = num / den lies in [0, top]
WithinRange(e, top) ==
    /\ e[2] > 0
    /\ 0 <= e[1]
    /\ e[1] <= top * e[2]

\* C24: every recorded estimate stays within its natural range: at most 1
\* in the "fraction of disks" programs, at most DISK_COUNT in the "average
\* count" programs, also when several samples fall between two collisions
C24_EstimatesWithinNaturalRange ==
    \A k \in CoinValues :
        \A s \in 1 .. Len(ydata[k]) :
            WithinRange(ydata[k][s],
                        IF TwoWindow(variant) THEN DISK_COUNT ELSE 1)

\* what holds of the code for C24: the s-th estimate is at most s /
\* collision_count times the natural bound, and within the natural bound in
\* the SDL/Matplot program, which samples once per collision
EstimatesWithinSampleRatio ==
    \A k \in CoinValues :
        \A s \in 1 .. Len(ydata[k]) :
            /\ ydata[k][s][2] > 0
            /\ 0 <= ydata[k][s][1]
            /\ ydata[k][s][1] <= DISK_COUNT * s
            /\ (variant = "sdl") => WithinRange(ydata[k][s], 1)

\* C25: immediately after update_position every disk lies fully inside
\* the arena on both axes, whatever its position and velocity were before
\* the call and whatever dt was
C25_InsideArenaAfterUpdate ==
    [][pc = "move" => \A n \in DOMAIN disks : InsideArena(disks'[n])]_vars

\* what holds of the code for C25: a disk whose position and velocity are
\* numbers is inside the arena after the call; a NaN position or velocity
\* leaves a NaN position, which no comparison of update_position catches
InsideArenaUnlessNaN ==
    [][pc = "move" =>
          \A n \in DOMAIN disks :
              LET d == disks[n]
                  e == disks'[n]
              IN  /\ (~d.x.nan /\ ~d.vx.nan /\ ~d.y.nan /\ ~d.vy.nan)
                         => InsideArena(e)
                  /\ (d.x.nan \/ d.vx.nan) => e.x.nan
                  /\ (d.y.nan \/ d.vy.nan) => e.y.nan]_vars

\* both windows of a two-window program have been closed
BothClosed == TwoWindow(variant) /\ ~mainRunning /\ ~statsRunning

\* the simulation state does not change in the step
SimulationFrozen ==
    /\ disks' = disks
    /\ collision_count' = collision_count
    /\ cumulative_counts' = cumulative_counts
    /\ xdata' = xdata
    /\ ydata' = ydata

\* C26: in the two-window programs, once the main window has been closed it
\* stays closed and disks, collision_count, cumulative_counts and the
\* series never change again; main returns only when both windows have
\* been closed, and when both have been closed it returns
C26_FrozenAfterMainClosed ==
    /\ [][(TwoWindow(variant) /\ ~mainRunning) =>
             (SimulationFrozen /\ ~mainRunning')]_vars
    /\ [][(TwoWindow(variant) /\ ~mainRunning') => SimulationFrozen]_vars
    /\ []((TwoWindow(variant) /\ pc = "done") => BothClosed)
    /\ [][BothClosed => pc' = "done"]_vars
    /\ BothClosed ~> (pc = "done")

\* C26 witness: a frame was simulated and recorded a collision, then the
\* main window was closed, later the stats window, and main has returned
C26_Witness ==
    /\ BothClosed
    /\ pc = "done"
    /\ ticks > 0
    /\ collision_count > 0

\* C27: in the SDL/Matplot program update_plot runs once for every
\* detected collision, right after collision_count is incremented: every
\* series has collision_count points, the x of the n-th being n, and the
\* sum over k of cumulative_counts[k] is DISK_COUNT * collision_count
C27_SdlSamplesEveryCollision ==
    (variant = "sdl") =>
        /\ \A k \in CoinValues :
               /\ Samples(k) = collision_count
               /\ Len(ydata[k]) = collision_count
               /\ \A n \in 1 .. Samples(k) : xdata[k][n] = n
        /\ CumulativeUpTo(MAX_COINS_PER_DISK) = DISK_COUNT * collision_count

\* C27 witness: one tick of the SDL/Matplot program has had two collisions
\* and has sampled twice
C27_Witness ==
    /\ variant = "sdl"
    /\ TrueCount(calls) = 2
    /\ collision_count = 2
    /\ Samples(0) = 2
    /\ CumulativeUpTo(MAX_COINS_PER_DISK) = 2 * DISK_COUNT

=============================================================================
